---- MODULE Spec2Model ----
(***************************************************************************)
(* tailscale-dns-proxy: the DNS handler of internal/proxy.                 *)
(*                                                                         *)
(* One query at a time is followed through handler.intercept or            *)
(* handler.forward: resolveUpstream's loop over the configured upstreams,  *)
(* then doInterception's fan-out of one goroutine per upstream answer, the *)
(* goroutine that closes the result channel, the collecting loop and the   *)
(* assembly of the rewritten response.  Queries are independent in the     *)
(* code (no shared mutable per-query state), so one handler is followed.   *)
(*                                                                         *)
(* What lies outside the repository is an input: the outcome of            *)
(* dns.Client.ExchangeContext, the value returned by the Resolver, and the *)
(* cancellation of the server's context.  The outcome of an exchange is    *)
(* named by the way resolveUpstream classifies it with errors.Is; an       *)
(* exchange cut short by the total deadline is taken to fail with an error *)
(* matching errTotalUpstreamTimeoutExceeded, as handler.go:202-205 expects.*)
(*                                                                         *)
(* Beside the handler stand the parts it rests on, each with a             *)
(* specification of its own over variables of its own: the two informer    *)
(* stores and the lookup of KubernetesResolver (SpecIndex), the start of   *)
(* the resolver (SpecStart), the ServeMux that makeDNSServer builds        *)
(* (SpecRouting) and the two listeners with their shutdown goroutine       *)
(* (SpecServe).  The client-go informers and the miekg/dns server and mux  *)
(* are inputs: Indexer.ByIndex lists what it finds in no specified order.  *)
(***************************************************************************)
EXTENDS Integers, Sequences, FiniteSets, Bags, TLC

\* ---------------------------------------------------------------- bounds
MaxAnswers == 2
NumUpstreams == 3
MaxDevices == 2

\* ------------------------------------------------------------- constants
\* Ttl of a rewritten record (handler.go:151,159)
Ttl == 300

\* ------------------------------------------------------------ data model
\* net.IP: fam is 4 when To4() is not nil, 6 otherwise.  The addresses an
\* upstream answers with and the overlay addresses are different addresses.
ExternalV4 == [fam |-> 4, host |-> "203.0.113.5"]
ExternalV6 == [fam |-> 6, host |-> "2001:db8::5"]
OverlayV4 == [fam |-> 4, host |-> "100.64.1.2"]
OverlayV6 == [fam |-> 6, host |-> "fd7a:115c::2"]

ExternalIPs == {ExternalV4, ExternalV6}
OverlayIPs == {OverlayV4, OverlayV6}

QName == "app.example.com."
OtherName == "edge.example.net."

\* dns.Question
Questions ==
    { [name |-> QName, qtype |-> t] : t \in {"A", "AAAA", "MX"} }

QuestionLists ==
    { <<q>> : q \in Questions }
        \cup { <<[name |-> QName, qtype |-> "A"], [name |-> QName, qtype |-> "AAAA"]>> }

\* dns.RR as sent by an upstream: *dns.A, *dns.AAAA or another variant.
NoIP == [fam |-> 0, host |-> ""]

UpstreamRRs ==
    { [name |-> QName, rrtype |-> "A", ttl |-> 60, ip |-> ExternalV4],
      [name |-> OtherName, rrtype |-> "AAAA", ttl |-> 60, ip |-> ExternalV6],
      [name |-> QName, rrtype |-> "CNAME", ttl |-> 60, ip |-> NoIP] }

SeqsUpTo(S, n) == UNION { [1..k -> S] : k \in 0..n }

AnswerLists == SeqsUpTo(UpstreamRRs, MaxAnswers)

\* dns.Msg
NoMsg == [rcode |-> "none", question |-> <<>>, answer |-> <<>>]

UpstreamResponses(req) ==
    { [rcode |-> "NOERROR", question |-> req.question, answer |-> a] :
        a \in AnswerLists }
        \cup { [rcode |-> "NXDOMAIN", question |-> req.question, answer |-> <<>>] }

\* ---------------------------------------------------------------- errors
NoErr == "nil"
errTotalUpstreamTimeoutExceeded == "errTotalUpstreamTimeoutExceeded"
errAllUpstreamsTimedOut == "errAllUpstreamsTimedOut"
errUpstreamTimeout == "errUpstreamTimeout"
errUpstreamOther == "errUpstreamOther"
errAnswerNotIPRecord == "errAnswerNotIPRecord"
errNoTailscaleIPs == "errNoTailscaleIPs"
errNotInterceptableQuestion == "errNotInterceptableQuestion"
errNoTailscaleIPsAfterFiltering == "errNoTailscaleIPsAfterFiltering"
errResolver == "errResolver"
errContextCanceled == "errContextCanceled"

\* errors.Is(err, context.DeadlineExceeded)
IsDeadlineExceeded(err) ==
    err \in { errTotalUpstreamTimeoutExceeded, errAllUpstreamsTimedOut,
              errUpstreamTimeout }

\* errors.Is(err, errTotalUpstreamTimeoutExceeded)
IsTotalTimeout(err) == err = errTotalUpstreamTimeoutExceeded

\* ------------------------------------------------------------ iplist
FilterIPv4Only(ips) == SelectSeq(ips, LAMBDA ip : ip.fam = 4)

FilterIPv6Only(ips) == SelectSeq(ips, LAMBDA ip : ip.fam # 4)

\* dns.Msg.SetReply(request): the reply carries the first question only.
SetReply(request) ==
    [rcode |-> "NOERROR",
     question |-> IF Len(request.question) > 0
                  THEN <<request.question[1]>> ELSE <<>>,
     answer |-> <<>>]

\* dns.Msg.SetRcode(request, rcode)
SetRcode(request, rcode) == [SetReply(request) EXCEPT !.rcode = rcode]

\* Variant: the reply is built without the response code.
ServerFailure_NoRcode(request) == SetReply(request)

ServerFailure(request) == SetRcode(request, "SERVFAIL")

\* --------------------------------------------------------- the Resolver
\* What Resolver.GetTailscaleIPsByExternalIP may return for one call.
OverlayLists ==
    { <<>>, <<OverlayV4>>, <<OverlayV6>>, <<OverlayV4, OverlayV6>> }

NoLookup == [err |-> "none", ips |-> <<>>]

ResolverResults ==
    { [err |-> NoErr, ips |-> l] : l \in OverlayLists }
        \cup { [err |-> errResolver, ips |-> <<>>] }

\* ------------------------------------------------------- resolveUpstream
\* What ExchangeContext may return: a response, or an error.
ExchangeOutcomes(request, elapsed) ==
    IF elapsed
    THEN { [err |-> errTotalUpstreamTimeoutExceeded, resp |-> NoMsg] }
    ELSE { [err |-> NoErr, resp |-> r] : r \in UpstreamResponses(request) }
            \cup { [err |-> errUpstreamTimeout, resp |-> NoMsg],
                   [err |-> errUpstreamOther, resp |-> NoMsg] }

\* Variant: an upstream's own timeout ends the loop.
UpstreamErrAction_NoFailover(err) == "return"

\* Variant: context.DeadlineExceeded is tested before the total timeout.
UpstreamErrAction_DeadlineFirst(err) ==
    IF IsDeadlineExceeded(err) THEN "continue" ELSE "return"

\* Variant: every error moves on to the next upstream.
UpstreamErrAction_ContinueOnAny(err) ==
    IF IsTotalTimeout(err) THEN "return" ELSE "continue"

\* The error branch of the loop body: "return" the error or "continue".
UpstreamErrAction(err) ==
    IF IsTotalTimeout(err) THEN "return"
    ELSE IF IsDeadlineExceeded(err) THEN "continue"
    ELSE "return"

\* -------------------------------------------------------- doInterception
\* Variant: the guard tests the type of the first question only.
Interceptable_AnyCount(request) ==
    request.question[1].qtype \in {"A", "AAAA"}

\* The guard at the top of doInterception.
Interceptable(request) ==
    /\ Len(request.question) = 1
    /\ request.question[1].qtype \in {"A", "AAAA"}

\* Variant: an answer without overlay addresses contributes nothing.
UnitBody_NoEmptyCheck(answer, r) ==
    IF answer.rrtype \in {"A", "AAAA"}
    THEN IF r.err # NoErr
         THEN [err |-> r.err, ips |-> <<>>]
         ELSE [err |-> NoErr,
               ips |-> IF answer.rrtype = "A"
                       THEN FilterIPv4Only(r.ips)
                       ELSE FilterIPv6Only(r.ips)]
    ELSE [err |-> errAnswerNotIPRecord, ips |-> <<>>]

\* Variant: a record that is neither A nor AAAA is passed over.
UnitBody_SkipOtherRecords(answer, r) ==
    IF answer.rrtype \in {"A", "AAAA"}
    THEN IF r.err # NoErr
         THEN [err |-> r.err, ips |-> <<>>]
         ELSE LET ips == IF answer.rrtype = "A"
                         THEN FilterIPv4Only(r.ips)
                         ELSE FilterIPv6Only(r.ips)
              IN  IF Len(ips) = 0
                  THEN [err |-> errNoTailscaleIPs, ips |-> <<>>]
                  ELSE [err |-> NoErr, ips |-> ips]
    ELSE [err |-> NoErr, ips |-> <<>>]

\* The body of one unit of work up to the select: the error it returns,
\* or the addresses it is about to send.  r is the Resolver's return value.
UnitBody(answer, r) ==
    IF answer.rrtype \in {"A", "AAAA"}
    THEN IF r.err # NoErr
         THEN [err |-> r.err, ips |-> <<>>]
         ELSE LET ips == IF answer.rrtype = "A"
                         THEN FilterIPv4Only(r.ips)
                         ELSE FilterIPv6Only(r.ips)
              IN  IF Len(ips) = 0
                  THEN [err |-> errNoTailscaleIPs, ips |-> <<>>]
                  ELSE [err |-> NoErr, ips |-> ips]
    ELSE [err |-> errAnswerNotIPRecord, ips |-> <<>>]

\* Variant: the collected addresses are not filtered again.
FilterByQuestion_None(q, ips) == ips

\* The filter by the question's type.
FilterByQuestion(q, ips) ==
    IF q.qtype = "A" THEN FilterIPv4Only(ips) ELSE FilterIPv6Only(ips)

\* Variant: both branches build an A record.
MakeRR_AlwaysA(q, ip) ==
    [name |-> q.name, rrtype |-> "A", ttl |-> Ttl, ip |-> ip]

\* makeRR
MakeRR(q, ip) ==
    [name |-> q.name,
     rrtype |-> IF q.qtype = "A" THEN "A" ELSE "AAAA",
     ttl |-> Ttl,
     ip |-> ip]

\* Variant: the test for an empty list after the filter is missing.
Assemble_NoEmptyCheck(request, groupErr, collected) ==
    IF groupErr # NoErr
    THEN [err |-> groupErr, msg |-> NoMsg]
    ELSE LET q == request.question[1]
             ips == FilterByQuestion(q, collected)
         IN  [err |-> NoErr,
              msg |-> [SetReply(request) EXCEPT
                         !.answer = [k \in 1..Len(ips) |-> MakeRR(q, ips[k])]]]

\* doInterception after the collecting loop: g.Wait's error, the filter,
\* the answers.
Assemble(request, groupErr, collected) ==
    IF groupErr # NoErr
    THEN [err |-> groupErr, msg |-> NoMsg]
    ELSE LET q == request.question[1]
             ips == FilterByQuestion(q, collected)
         IN  IF Len(ips) = 0
             THEN [err |-> errNoTailscaleIPsAfterFiltering, msg |-> NoMsg]
             ELSE [err |-> NoErr,
                   msg |-> [SetReply(request) EXCEPT
                              !.answer = [k \in 1..Len(ips) |-> MakeRR(q, ips[k])]]]

\* ------------------------------------------------------------- state
VARIABLES
    pc,            \* position of the handler goroutine
    path,          \* "intercept" or "forward": the handler the mux chose
    req,           \* the request
    upIdx,         \* resolveUpstream: index of the upstream of this iteration
    contacted,     \* upstreams ExchangeContext was called for, in call order
    outcomes,      \* what each of those calls returned
    totalElapsed,  \* the deadline of resolveUpstream's context has passed
    elapsedDuring, \* the upstream being exchanged with when it passed, or 0
    upResp,        \* resolveUpstream's results
    upErr,
    parentDone,    \* the server's context is cancelled
    unit,          \* the goroutines of g.Go, one per answer
    gErr,          \* errgroup: the first error returned
    gCancelled,    \* errgroup: the group's context was cancelled by the group
    closer,        \* the goroutine that waits and closes resolvedIPs
    chanClosed,    \* resolvedIPs is closed
    tailscaleIPs,  \* what the collecting loop appended
    newResp,       \* doInterception's results
    diErr,
    written        \* what was handed to w.WriteMsg for this query

\* The Kubernetes resolver (internal/resolvers/kubernetes.go).
VARIABLES
    serviceStore,  \* the objects in the service informer's store
    secretStore,   \* the objects in the secret informer's store
    lastLookup     \* the last lookup since the last watch event, if any

\* Starting the resolver (resolver.go, kubernetes.go:144-162).
VARIABLES
    startPc,          \* where StartWithTimeout and Start are
    factory,          \* the factory startAndWaitForCacheSync is working on
    withTimeout,      \* timeout > 0: the context is derived, cancel deferred
    cancelClosed,     \* the channel passed to Start is closed
    startedInformers, \* per factory: Start has run the informer
    watch,            \* per factory: the informer's goroutine
    synced,           \* per factory: the informer's HasSynced
    syncResult,       \* per factory: what WaitForCacheSync reported
    startErr          \* what Start returned; <<>> is nil

\* The DNS servers' routing (Server.makeDNSServer).
VARIABLES
    configured,    \* proxy.New has been called
    proxyZones,    \* Config.ProxyZones
    mux,           \* per protocol: the ServeMux of its dns.Server
    routed         \* the last query dispatched and the handler it went to

\* Serving and shutting down (Server.ListenAndServeContext).
VARIABLES
    servePc,        \* where ListenAndServeContext is
    topCancelled,   \* the context it was given is cancelled
    srvCtxDone,     \* the context of its errgroup is done
    listener,       \* per protocol: the ListenAndServe goroutine
    srvGroupErr,    \* the error g.Wait returns
    shutPc,         \* where the shutdown goroutine is
    shutdownAsked,  \* per protocol: Shutdown has been called
    shutdownFailed, \* per protocol: Shutdown returned an error
    warned          \* the protocols a shutdown warning was logged for

\* Taking over an overlay address (PeriodicThief).
VARIABLES
    thiefPc,        \* where the ticker loop and Steal are
    devices,        \* the device list Steal fetched
    scan,           \* what the loop over the devices left in Steal's locals
    randomIP,       \* the address randomTailscaleIPv4 returned
    calls,          \* the set-address requests sent, with their status
    stealErr        \* the error Steal returns

upstreamVars == <<upIdx, contacted, outcomes, totalElapsed, elapsedDuring,
                  upResp, upErr>>
groupVars == <<unit, gErr, gCancelled, closer, chanClosed, tailscaleIPs>>
resultVars == <<newResp, diErr>>

handlerVars == <<pc, path, req, upstreamVars, parentDone, groupVars,
                 resultVars, written>>

indexVars == <<serviceStore, secretStore, lastLookup>>

\* What a step of the handler leaves alone.
startVars == <<startPc, factory, withTimeout, cancelClosed, startedInformers,
               watch, synced, syncResult, startErr>>

muxVars == <<configured, proxyZones, mux, routed>>

serveVars == <<servePc, topCancelled, srvCtxDone, listener, srvGroupErr,
               shutPc, shutdownAsked, shutdownFailed, warned>>

thiefVars == <<thiefPc, devices, scan, randomIP, calls, stealErr>>

outsideHandler == <<indexVars, startVars, muxVars, serveVars, thiefVars>>

vars == <<handlerVars, outsideHandler>>

\* ------------------------------------------- the Kubernetes resolver
\* kubernetes.go:20-32
labelTailscaleParentResource == "tailscale.com/parent-resource"
labelTailscaleParentResourceNs == "tailscale.com/parent-resource-ns"
labelTailscaleParentResourceType == "tailscale.com/parent-resource-type"
tailscaleSecretDataDeviceIps == "device_ips"
typeService == "svc"

makeServicePath(namespace, name) == namespace \o "/" \o name

\* corev1.Service: its key in the store and Status.LoadBalancer.Ingress[].IP
ServiceKeys == { <<"default", "app">>, <<"prod", "app">> }

IngressLists ==
    { <<"">>,
      <<"", "203.0.113.5">>,
      <<"203.0.113.5", "2001:db8::5">> }

Services ==
    { [namespace |-> k[1], name |-> k[2], ingress |-> l] :
        k \in ServiceKeys, l \in IngressLists }

\* corev1.Secret: its name, its labels and its data
SecretNames == { "ts-app-0", "ts-app-1" }

ServiceLabels(namespace, name) ==
    (labelTailscaleParentResource :> name)
        @@ (labelTailscaleParentResourceNs :> namespace)
        @@ (labelTailscaleParentResourceType :> typeService)

LabelSets ==
    { ServiceLabels("default", "app"),
      ServiceLabels("prod", "app"),
      (labelTailscaleParentResource :> "app")
        @@ (labelTailscaleParentResourceNs :> "default")
        @@ (labelTailscaleParentResourceType :> "ingress"),
      (labelTailscaleParentResource :> "app")
        @@ (labelTailscaleParentResourceType :> typeService) }

\* The JSON texts found under device_ips.
Payloads ==
    { "[]",
      "[\"100.64.1.2\"]",
      "[\"FD7A:115C::2\",\"100.64.1.2\"]",
      "[\"tailscale0\"]",
      "{}" }

NoData == [k \in {} |-> ""]

DataSets ==
    { NoData } \cup { (tailscaleSecretDataDeviceIps :> p) : p \in Payloads }

Secrets ==
    { [name |-> n, labels |-> l, data |-> d] :
        n \in SecretNames, l \in LabelSets, d \in DataSets }

errUnmarshal == "failed to unmarshal tailscale-operator secret device IPs data"
InvalidIPError == "failed to parse IP"

\* json.Unmarshal(ipsJson, &ips) with ips a []string
Unmarshal(ipsJson) ==
    CASE ipsJson = "[]" -> [err |-> NoErr, ips |-> <<>>]
      [] ipsJson = "[\"100.64.1.2\"]" ->
            [err |-> NoErr, ips |-> <<"100.64.1.2">>]
      [] ipsJson = "[\"FD7A:115C::2\",\"100.64.1.2\"]" ->
            [err |-> NoErr, ips |-> <<"FD7A:115C::2", "100.64.1.2">>]
      [] ipsJson = "[\"tailscale0\"]" ->
            [err |-> NoErr, ips |-> <<"tailscale0">>]
      [] OTHER -> [err |-> errUnmarshal, ips |-> <<>>]

\* net.ParseIP: nil for a text that is not an address
ParseIP(ipString) ==
    CASE ipString = "100.64.1.2" -> OverlayV4
      [] ipString \in {"fd7a:115c::2", "FD7A:115C::2"} -> OverlayV6
      [] ipString = "203.0.113.5" -> ExternalV4
      [] ipString = "2001:db8::5" -> ExternalV6
      [] OTHER -> NoIP

\* net.IP.String
String(ip) == ip.host

\* iplist.ParseIPs
ParseIPs(ips) ==
    IF \E i \in 1..Len(ips) : ParseIP(ips[i]) = NoIP
    THEN [err |-> InvalidIPError, ips |-> <<>>]
    ELSE [err |-> NoErr, ips |-> [i \in 1..Len(ips) |-> ParseIP(ips[i])]]

\* Variant: the type label is not compared with typeService.
IndexByServicePath_AnyType(secret) ==
    IF \/ labelTailscaleParentResource \notin DOMAIN secret.labels
       \/ labelTailscaleParentResourceNs \notin DOMAIN secret.labels
       \/ labelTailscaleParentResourceType \notin DOMAIN secret.labels
    THEN {}
    ELSE { makeServicePath(secret.labels[labelTailscaleParentResourceNs],
                           secret.labels[labelTailscaleParentResource]) }

\* The index function of the secret informer.
IndexByServicePath(secret) ==
    IF \/ labelTailscaleParentResource \notin DOMAIN secret.labels
       \/ labelTailscaleParentResourceNs \notin DOMAIN secret.labels
       \/ labelTailscaleParentResourceType \notin DOMAIN secret.labels
       \/ secret.labels[labelTailscaleParentResourceType] # typeService
    THEN {}
    ELSE { makeServicePath(secret.labels[labelTailscaleParentResourceNs],
                           secret.labels[labelTailscaleParentResource]) }

\* The index function of the service informer.
IndexByExternalIp(service) ==
    { service.ingress[i] :
        i \in { j \in 1..Len(service.ingress) : service.ingress[j] # "" } }

\* The orders in which Indexer.ByIndex may list what it found: it ranges
\* over a Go map, whose iteration order is not specified.
Orders(S) ==
    { o \in [1..Cardinality(S) -> S] :
        \A i, j \in 1..Cardinality(S) : i # j => o[i] # o[j] }

\* secretInformer.GetIndexer().ByIndex(indexByServicePath, path)
SecretsByIndex(servicePath, order) ==
    LET found ==
            { s \in secretStore : servicePath \in IndexByServicePath(s) }
        at(n) == CHOOSE s \in found : s.name = n
        names == SelectSeq(order, LAMBDA n : \E s \in found : s.name = n)
    IN  [i \in 1..Len(names) |-> at(names[i])]

\* serviceInformer.GetIndexer().ByIndex(indexByExternalIp, ip)
ServicesByIndex(ip, order) ==
    LET found == { s \in serviceStore : ip \in IndexByExternalIp(s) }
        at(k) == CHOOSE s \in found : <<s.namespace, s.name>> = k
        keys == SelectSeq(order, LAMBDA k :
                    \E s \in found : <<s.namespace, s.name>> = k)
    IN  [i \in 1..Len(keys) |-> at(keys[i])]

NotDone == [done |-> FALSE, err |-> NoErr, ips |-> <<>>]

\* Variant: a Secret without the key is an error.
ReadDeviceIPs_MissingKeyFails(secret) ==
    IF tailscaleSecretDataDeviceIps \notin DOMAIN secret.data
    THEN [done |-> TRUE, err |-> errUnmarshal, ips |-> <<>>]
    ELSE LET u == Unmarshal(secret.data[tailscaleSecretDataDeviceIps])
         IN  IF u.err # NoErr
             THEN [done |-> TRUE, err |-> u.err, ips |-> <<>>]
             ELSE IF Len(u.ips) > 0
                  THEN [done |-> TRUE, err |-> NoErr, ips |-> u.ips]
                  ELSE NotDone

\* One turn of the loop of GetTailscaleIPsByService: done is FALSE when the
\* loop goes on to the next Secret.
ReadDeviceIPs(secret) ==
    IF tailscaleSecretDataDeviceIps \notin DOMAIN secret.data
    THEN NotDone
    ELSE LET u == Unmarshal(secret.data[tailscaleSecretDataDeviceIps])
         IN  IF u.err # NoErr
             THEN [done |-> TRUE, err |-> u.err, ips |-> <<>>]
             ELSE IF Len(u.ips) > 0
                  THEN [done |-> TRUE, err |-> NoErr, ips |-> u.ips]
                  ELSE NotDone

RECURSIVE RangeSecrets(_)
RangeSecrets(secrets) ==
    IF secrets = <<>>
    THEN [err |-> NoErr, ips |-> <<>>]
    ELSE LET r == ReadDeviceIPs(Head(secrets))
         IN  IF r.done
             THEN [err |-> r.err, ips |-> r.ips]
             ELSE RangeSecrets(Tail(secrets))

GetTailscaleIPsByService(serviceNamespace, serviceName, order) ==
    RangeSecrets(SecretsByIndex(
        makeServicePath(serviceNamespace, serviceName), order))

RECURSIVE RangeServices(_, _)
RangeServices(services, secretOrder) ==
    IF services = <<>>
    THEN [err |-> NoErr, ips |-> <<>>]
    ELSE LET service == Head(services)
             r == GetTailscaleIPsByService(service.namespace, service.name,
                                           secretOrder)
         IN  IF r.err # NoErr
             THEN [err |-> r.err, ips |-> <<>>]
             ELSE IF Len(r.ips) > 0
                  THEN ParseIPs(r.ips)
                  ELSE RangeServices(Tail(services), secretOrder)

GetTailscaleIPsByExternalIP(externalIP, serviceOrder, secretOrder) ==
    RangeServices(ServicesByIndex(String(externalIP), serviceOrder),
                  secretOrder)

NoLookupYet == [ip |-> NoIP, out |-> NoLookup]

\* ----------------------------------------------- KubernetesResolver.Start
\* The two informer factories, in the order Start takes them.
SecretFactory == "Secret"
ServiceFactory == "Service"
Factories == { SecretFactory, ServiceFactory }

\* errors.Join of the results of the two calls: the failed caches, in order;
\* the empty sequence is nil.
Join_FirstOnly(e1, e2) == IF e1 # <<>> THEN e1 ELSE e2

Join(e1, e2) == e1 \o e2

\* startAndWaitForCacheSync's result for one factory
CacheSyncError(cache, ok) == IF ok THEN <<>> ELSE <<cache>>

\* -------------------------------------------------------- zone routing
Protocols == { "tcp", "udp" }

\* Config.ProxyZones as it may be written in the configuration.
ProxyZoneLists ==
    { <<>>,
      <<"example.com.">>,
      <<"Example.COM">>,
      <<"svc.example.com.">>,
      <<"svc.example.com.", "example.com.">>,
      <<".">>,
      <<".", "example.com.">>,
      <<"example.com.", ".">> }

\* The names queries ask for.
QueryNames ==
    { ".", "example.com.", "app.example.com.", "APP.Example.Com.",
      "db.svc.example.com.", "example.org.", "notexample.com." }

\* dns.CanonicalName: lower case, fully qualified; here as the labels of
\* the name, the root being the name without labels.
CanonicalName(s) ==
    CASE s = "." -> <<>>
      [] s \in {"example.com.", "Example.COM"} -> <<"example", "com">>
      [] s = "svc.example.com." -> <<"svc", "example", "com">>
      [] s \in {"app.example.com.", "APP.Example.Com."} ->
            <<"app", "example", "com">>
      [] s = "db.svc.example.com." -> <<"db", "svc", "example", "com">>
      [] s = "example.org." -> <<"example", "org">>
      [] s = "notexample.com." -> <<"notexample", "com">>

\* dns.NewServeMux: no pattern is handled.
NewServeMux == [z \in {} |-> ""]

\* ServeMux.HandleFunc: the handler of a pattern replaces an earlier one.
HandleFunc(z, pattern, handler) ==
    [n \in (DOMAIN z) \cup {CanonicalName(pattern)} |->
        IF n = CanonicalName(pattern) THEN handler ELSE z[n]]

\* The loop of makeDNSServer over the proxy zones.
RECURSIVE RangeProxyZones(_, _)
RangeProxyZones(z, patterns) ==
    IF patterns = <<>>
    THEN z
    ELSE RangeProxyZones(HandleFunc(z, Head(patterns), "intercept"),
                         Tail(patterns))

\* Variant: the root zone is registered before the proxy zones.
BuildMux_RootFirst(patterns) ==
    RangeProxyZones(HandleFunc(NewServeMux, ".", "forward"), patterns)

\* The mux makeDNSServer builds.
BuildMux(patterns) ==
    HandleFunc(RangeProxyZones(NewServeMux, patterns), ".", "forward")

NoHandler == "refused"

\* ServeMux.match: the name, then the name less its first label, and so
\* on; the root zone is tried last.
RECURSIVE Match(_, _)
Match(z, labels) ==
    IF labels \in DOMAIN z
    THEN z[labels]
    ELSE IF labels = <<>>
         THEN NoHandler
         ELSE Match(z, Tail(labels))

NoMux == [built |-> FALSE, z |-> NewServeMux]

NotRouted == [protocol |-> "", name |-> "", handler |-> ""]

\* ------------------------------------------------ the two listeners
\* What dns.Server.ListenAndServe returned with, per protocol.
ListenError(protocol) == "listen " \o protocol

\* The order in which the shutdown goroutine takes the servers.
NextToShutDown(protocol) == IF protocol = "tcp" THEN "udp" ELSE "done"

\* ---------------------------------------------------- the address thief
\* Config.DesiredIP and Config.TargetHostname (kubernetes.go:255-262).
DesiredIP == "100.64.0.1"
TargetHostname == "proxy"

errFetchDevices == "failed to fetch list of devices"
errUnparsableLastSeen == "saw unparsable last seen time in devices"
errFailedToFindTargetDevice ==
    "failed to find target device in Tailscale device list"
errFailedToSetDeviceIP == "API call to set device IP failed"
errCallNotMade == "tailscale API call to change IP could not be made"

\* Device.LastSeen as the API sends it, and time.Parse(time.RFC3339, s):
\* the instant, or an error.
LastSeens ==
    {"", "yesterday", "2024-05-01T10:00:00Z", "2024-05-02T10:00:00Z"}

ParseError == -1

Parse(s) ==
    CASE s = "2024-05-01T10:00:00Z" -> 1
      [] s = "2024-05-02T10:00:00Z" -> 2
      [] OTHER -> ParseError

\* tailscale.Device, without its DeviceID: it has the target's hostname or
\* another, and holds no address, the desired one or another.
Devices ==
    [ hostname : {TargetHostname, "laptop"},
      addresses : {<<>>, <<DesiredIP>>, <<"100.64.0.2">>},
      lastSeen : LastSeens ]

\* What client.Devices returns: every device has its own DeviceID, and the
\* tailnet gives an address to one device only.
DeviceLists ==
    { [ i \in DOMAIN ds |->
          [ deviceID |-> ToString(i),
            hostname |-> ds[i].hostname,
            addresses |-> ds[i].addresses,
            lastSeen |-> ds[i].lastSeen ] ] :
      ds \in { l \in UNION { [1..n -> Devices] : n \in 0..MaxDevices } :
                 \A i, j \in DOMAIN l :
                     /\ i # j
                     /\ l[i].addresses # <<>>
                     => l[i].addresses # l[j].addresses } }

\* A nil *tailscale.Device; a device is pointed to by its place in the list.
NoDevice == 0

\* Steal's locals before its loop over the devices.
NoScan ==
    [ occupiedIPs |-> <<>>, currentDevice |-> NoDevice,
      targetDevice |-> NoDevice, targetDeviceLastSeen |-> 0, err |-> NoErr ]

\* The loop over the devices from the i-th on (kubernetes.go:317-341).
RECURSIVE RangeDevices(_, _, _)
RangeDevices(devs, i, s) ==
    IF i > Len(devs)
    THEN s
    ELSE LET device == devs[i]
             seen == [s EXCEPT
                        !.occupiedIPs = @ \o device.addresses,
                        !.currentDevice =
                            IF \E a \in DOMAIN device.addresses :
                                   device.addresses[a] = DesiredIP
                            THEN i
                            ELSE @]
             lastSeen == Parse(device.lastSeen)
         IN  IF device.hostname # TargetHostname \/ device.lastSeen = ""
             THEN RangeDevices(devs, i + 1, seen)
             ELSE IF lastSeen = ParseError
             THEN [seen EXCEPT !.err = errUnparsableLastSeen]
             ELSE IF \/ seen.targetDevice = NoDevice
                     \/ lastSeen > seen.targetDeviceLastSeen
             THEN RangeDevices(devs, i + 1,
                               [seen EXCEPT !.targetDevice = i,
                                            !.targetDeviceLastSeen = lastSeen])
             ELSE RangeDevices(devs, i + 1, seen)

\* The addresses fmt.Sprintf("100.64.%d.%d", ...) can give, four of them.
RandomIPv4s == {"100.64.0.1", "100.64.0.2", "100.64.0.3", "100.64.0.4"}

\* randomTailscaleIPv4: the addresses it can return, any that is not among
\* the occupied ones.
randomTailscaleIPv4(occupied) ==
    { ip \in RandomIPv4s : \A k \in DOMAIN occupied : occupied[k] # ip }

\* makeSetDeviceIPv4Request: a POST to the device's endpoint with the
\* address as its JSON body.
makeSetDeviceIPv4Request(deviceID, ipv4) ==
    [ method |-> "POST",
      url |-> "https://api.tailscale.com/api/v2/device/" \o deviceID \o "/ip",
      body |-> [ipv4 |-> ipv4] ]

\* What client.Do gives for a request: a status code, or 0 when the call
\* could not be made.
Responses == {200, 500, 0}

\* setDeviceIPv4: the request it sends and the error it returns.  The
\* request is made with the desired address whatever ip it was given.
setDeviceIPv4(device, ip, response) ==
    [ request |-> makeSetDeviceIPv4Request(device.deviceID, DesiredIP),
      status |-> response,
      err |-> CASE response = 0 -> errCallNotMade
                [] response = 200 -> NoErr
                [] OTHER -> errFailedToSetDeviceIP ]

\* ------------------------------------------------------------ the handler
Units == 1..MaxAnswers

NoUnit == [pc |-> "none", got |-> NoLookup, ips |-> <<>>]

Init ==
    /\ pc = "idle"
    /\ path = "forward"
    /\ req = [question |-> <<>>]
    /\ upIdx = 1
    /\ contacted = <<>>
    /\ outcomes = <<>>
    /\ totalElapsed = FALSE
    /\ elapsedDuring = 0
    /\ upResp = NoMsg
    /\ upErr = NoErr
    /\ parentDone = FALSE
    /\ unit = [i \in Units |-> NoUnit]
    /\ gErr = NoErr
    /\ gCancelled = FALSE
    /\ closer = "off"
    /\ chanClosed = FALSE
    /\ tailscaleIPs = <<>>
    /\ newResp = NoMsg
    /\ diErr = NoErr
    /\ written = <<>>
    /\ serviceStore = {}
    /\ secretStore = {}
    /\ lastLookup = NoLookupYet
    /\ startPc = "idle"
    /\ factory = SecretFactory
    /\ withTimeout = FALSE
    /\ cancelClosed = FALSE
    /\ startedInformers = [f \in Factories |-> FALSE]
    /\ watch = [f \in Factories |-> "off"]
    /\ synced = [f \in Factories |-> FALSE]
    /\ syncResult = [f \in Factories |-> "none"]
    /\ startErr = <<>>
    /\ configured = FALSE
    /\ proxyZones = <<>>
    /\ mux = [p \in Protocols |-> NoMux]
    /\ routed = NotRouted
    /\ servePc = "idle"
    /\ topCancelled = FALSE
    /\ srvCtxDone = FALSE
    /\ listener = [p \in Protocols |-> "off"]
    /\ srvGroupErr = NoErr
    /\ shutPc = "off"
    /\ shutdownAsked = [p \in Protocols |-> FALSE]
    /\ shutdownFailed = [p \in Protocols |-> FALSE]
    /\ warned = {}
    /\ thiefPc = "ticker"
    /\ devices = <<>>
    /\ scan = NoScan
    /\ randomIP = ""
    /\ calls = <<>>
    /\ stealErr = NoErr

\* The group's context: done when its parent is, or when the group cancels.
CtxDone == parentDone \/ gCancelled

\* The mux hands a request to handler.intercept or handler.forward.
Receive(p, q) ==
    /\ pc \in {"idle", "done"}
    /\ pc' = "loop"
    /\ path' = p
    /\ req' = [question |-> q]
    /\ upIdx' = 1
    /\ contacted' = <<>>
    /\ outcomes' = <<>>
    /\ totalElapsed' = FALSE
    /\ elapsedDuring' = 0
    /\ upResp' = NoMsg
    /\ upErr' = NoErr
    /\ unit' = [i \in Units |-> NoUnit]
    /\ gErr' = NoErr
    /\ gCancelled' = FALSE
    /\ closer' = "off"
    /\ chanClosed' = FALSE
    /\ tailscaleIPs' = <<>>
    /\ newResp' = NoMsg
    /\ diErr' = NoErr
    /\ written' = <<>>
    /\ UNCHANGED parentDone
    /\ UNCHANGED outsideHandler

\* The server's context is cancelled (shutdown, or a listener failed).
CancelContext ==
    /\ ~parentDone
    /\ parentDone' = TRUE
    /\ UNCHANGED <<pc, path, req, upstreamVars, groupVars, resultVars, written>>
    /\ UNCHANGED outsideHandler

\* resolveUpstream: the deadline of WithTimeoutCause passes.
TotalDeadline ==
    /\ pc \in {"loop", "exchange"}
    /\ ~totalElapsed
    /\ totalElapsed' = TRUE
    /\ elapsedDuring' = IF pc = "exchange" THEN upIdx ELSE 0
    /\ UNCHANGED <<pc, path, req, upIdx, contacted, outcomes, upResp, upErr,
                   parentDone, groupVars, resultVars, written>>
    /\ UNCHANGED outsideHandler

\* resolveUpstream: the loop calls ExchangeContext for the next upstream.
ExchangeCall ==
    /\ pc = "loop"
    /\ upIdx <= NumUpstreams
    /\ contacted' = Append(contacted, upIdx)
    /\ pc' = "exchange"
    /\ UNCHANGED <<path, req, upIdx, outcomes, totalElapsed, elapsedDuring,
                   upResp, upErr, parentDone, groupVars, resultVars, written>>
    /\ UNCHANGED outsideHandler

\* resolveUpstream: ExchangeContext returns o; the loop body decides.
ExchangeReturn(o) ==
    /\ pc = "exchange"
    /\ outcomes' = Append(outcomes, o)
    /\ IF o.err # NoErr
       THEN IF UpstreamErrAction(o.err) = "continue"
            THEN /\ upIdx' = upIdx + 1
                 /\ pc' = "loop"
                 /\ UNCHANGED <<upResp, upErr>>
            ELSE /\ upErr' = o.err
                 /\ pc' = "resolved"
                 /\ UNCHANGED <<upIdx, upResp>>
       ELSE /\ upResp' = o.resp
            /\ pc' = "resolved"
            /\ UNCHANGED <<upIdx, upErr>>
    /\ UNCHANGED <<path, req, contacted, totalElapsed, elapsedDuring,
                   parentDone, groupVars, resultVars, written>>
    /\ UNCHANGED outsideHandler

\* Variant: the loop's exhaustion is reported as the total timeout.
AllUpstreamsTimedOut_ReturnsTotal ==
    /\ pc = "loop"
    /\ upIdx > NumUpstreams
    /\ upErr' = errTotalUpstreamTimeoutExceeded
    /\ pc' = "resolved"
    /\ UNCHANGED <<path, req, upIdx, contacted, outcomes, totalElapsed,
                   elapsedDuring, upResp, parentDone, groupVars, resultVars,
                   written>>
    /\ UNCHANGED outsideHandler

\* resolveUpstream: the loop ran out of upstreams.
AllUpstreamsTimedOut ==
    /\ pc = "loop"
    /\ upIdx > NumUpstreams
    /\ upErr' = errAllUpstreamsTimedOut
    /\ pc' = "resolved"
    /\ UNCHANGED <<path, req, upIdx, contacted, outcomes, totalElapsed,
                   elapsedDuring, upResp, parentDone, groupVars, resultVars,
                   written>>
    /\ UNCHANGED outsideHandler

\* Variant: the failure reply is not built, the nil response is written.
ForwardWrite_KeepsResponse ==
    /\ pc = "resolved"
    /\ path = "forward"
    /\ written' = Append(written, upResp)
    /\ pc' = "done"
    /\ UNCHANGED <<path, req, upstreamVars, parentDone, groupVars, resultVars>>
    /\ UNCHANGED outsideHandler

\* handler.forward after resolveUpstream.
ForwardWrite ==
    /\ pc = "resolved"
    /\ path = "forward"
    /\ written' = Append(written, IF upErr # NoErr
                                  THEN ServerFailure(req) ELSE upResp)
    /\ pc' = "done"
    /\ UNCHANGED <<path, req, upstreamVars, parentDone, groupVars, resultVars>>
    /\ UNCHANGED outsideHandler

\* Variant: the return after the failure reply is missing.
InterceptFail_NoReturn ==
    /\ pc = "resolved"
    /\ path = "intercept"
    /\ upErr # NoErr
    /\ written' = Append(written, ServerFailure(req))
    /\ pc' = "write"
    /\ UNCHANGED <<path, req, upstreamVars, parentDone, groupVars, resultVars>>
    /\ UNCHANGED outsideHandler

\* handler.intercept: resolveUpstream failed.
InterceptFail ==
    /\ pc = "resolved"
    /\ path = "intercept"
    /\ upErr # NoErr
    /\ written' = Append(written, ServerFailure(req))
    /\ pc' = "done"
    /\ UNCHANGED <<path, req, upstreamVars, parentDone, groupVars, resultVars>>
    /\ UNCHANGED outsideHandler

\* Variant: the question is not tested.
DoInterceptionBegin_NoQuestionCheck ==
    /\ pc = "resolved"
    /\ path = "intercept"
    /\ upErr = NoErr
    /\ pc' = "spawn"
    /\ UNCHANGED diErr
    /\ UNCHANGED <<path, req, upstreamVars, parentDone, groupVars, newResp,
                   written>>
    /\ UNCHANGED outsideHandler

\* handler.intercept calls doInterception: the guard on the question.
DoInterceptionBegin ==
    /\ pc = "resolved"
    /\ path = "intercept"
    /\ upErr = NoErr
    /\ IF Interceptable(req)
       THEN /\ pc' = "spawn"
            /\ UNCHANGED diErr
       ELSE /\ pc' = "write"
            /\ diErr' = errNotInterceptableQuestion
    /\ UNCHANGED <<path, req, upstreamVars, parentDone, groupVars, newResp,
                   written>>
    /\ UNCHANGED outsideHandler

Spawned == { i \in Units : unit[i].pc # "none" }

\* doInterception: g.Go for the next answer.
Spawn(i) ==
    /\ pc = "spawn"
    /\ i = Cardinality(Spawned) + 1
    /\ i <= Len(upResp.answer)
    /\ unit' = [unit EXCEPT ![i].pc = "run"]
    /\ UNCHANGED <<pc, path, req, upstreamVars, parentDone, gErr, gCancelled,
                   closer, chanClosed, tailscaleIPs, resultVars, written>>
    /\ UNCHANGED outsideHandler

\* doInterception: the closing goroutine starts, the collecting loop begins.
StartCollect ==
    /\ pc = "spawn"
    /\ Cardinality(Spawned) = Len(upResp.answer)
    /\ closer' = "wait"
    /\ pc' = "collect"
    /\ UNCHANGED <<path, req, upstreamVars, parentDone, unit, gErr, gCancelled,
                   chanClosed, tailscaleIPs, resultVars, written>>
    /\ UNCHANGED outsideHandler

\* errgroup: a goroutine returned err.
GroupAfter(err) ==
    /\ gErr' = IF err # NoErr /\ gErr = NoErr THEN err ELSE gErr
    /\ gCancelled' = (gCancelled \/ (err # NoErr /\ gErr = NoErr))

\* A unit of work runs up to its select; r is what the Resolver returns.
UnitRun(i, r) ==
    /\ unit[i].pc = "run"
    /\ LET answer == upResp.answer[i]
           lookup == IF answer.rrtype \in {"A", "AAAA"} THEN r ELSE NoLookup
           out == UnitBody(answer, lookup)
       IN  /\ unit' = [unit EXCEPT
                         ![i] = [pc |-> IF out.err = NoErr THEN "send" ELSE "ret",
                                 got |-> lookup,
                                 ips |-> out.ips]]
           /\ IF out.err = NoErr
              THEN UNCHANGED <<gErr, gCancelled>>
              ELSE GroupAfter(out.err)
    /\ UNCHANGED <<pc, path, req, upstreamVars, parentDone, closer, chanClosed,
                   tailscaleIPs, resultVars, written>>
    /\ UNCHANGED outsideHandler

\* The unbuffered channel: a unit's send meets the collecting loop's receive.
SendReceive(i) ==
    /\ unit[i].pc = "send"
    /\ pc = "collect"
    /\ ~chanClosed
    /\ tailscaleIPs' = tailscaleIPs \o unit[i].ips
    /\ unit' = [unit EXCEPT ![i].pc = "ret"]
    /\ UNCHANGED <<pc, path, req, upstreamVars, parentDone, gErr, gCancelled,
                   closer, chanClosed, resultVars, written>>
    /\ UNCHANGED outsideHandler

\* The other case of the select: the group's context is done.
UnitCtxDone(i) ==
    /\ unit[i].pc = "send"
    /\ CtxDone
    /\ unit' = [unit EXCEPT ![i].pc = "ret"]
    /\ GroupAfter(errContextCanceled)
    /\ UNCHANGED <<pc, path, req, upstreamVars, parentDone, closer, chanClosed,
                   tailscaleIPs, resultVars, written>>
    /\ UNCHANGED outsideHandler

\* The closing goroutine: g.Wait returns once every unit has returned.
CloserWait ==
    /\ closer = "wait"
    /\ \A i \in Spawned : unit[i].pc = "ret"
    /\ gCancelled' = TRUE
    /\ closer' = "close"
    /\ UNCHANGED <<pc, path, req, upstreamVars, parentDone, unit, gErr,
                   chanClosed, tailscaleIPs, resultVars, written>>
    /\ UNCHANGED outsideHandler

\* Variant: the channel is closed only when the group has no error.
CloserClose_OnlyOnSuccess ==
    /\ closer = "close"
    /\ gErr = NoErr
    /\ chanClosed' = TRUE
    /\ closer' = "exit"
    /\ UNCHANGED <<pc, path, req, upstreamVars, parentDone, unit, gErr,
                   gCancelled, tailscaleIPs, resultVars, written>>
    /\ UNCHANGED outsideHandler

\* The closing goroutine: close(resolvedIPs).
CloserClose ==
    /\ closer = "close"
    /\ chanClosed' = TRUE
    /\ closer' = "exit"
    /\ UNCHANGED <<pc, path, req, upstreamVars, parentDone, unit, gErr,
                   gCancelled, tailscaleIPs, resultVars, written>>
    /\ UNCHANGED outsideHandler

\* Variant: the function returns as soon as the group has an error.
DoInterceptionFinish_ReturnsOnError ==
    /\ pc = "collect"
    /\ \/ gErr # NoErr
       \/ chanClosed /\ \A i \in Spawned : unit[i].pc = "ret"
    /\ LET out == Assemble(req, gErr, tailscaleIPs)
       IN  /\ newResp' = out.msg
           /\ diErr' = out.err
    /\ pc' = "write"
    /\ UNCHANGED <<path, req, upstreamVars, parentDone, groupVars, written>>
    /\ UNCHANGED outsideHandler

\* doInterception: the range loop ends, g.Wait, the filter and the answers.
DoInterceptionFinish ==
    /\ pc = "collect"
    /\ chanClosed
    /\ \A i \in Spawned : unit[i].pc = "ret"
    /\ LET out == Assemble(req, gErr, tailscaleIPs)
       IN  /\ newResp' = out.msg
           /\ diErr' = out.err
    /\ pc' = "write"
    /\ UNCHANGED <<path, req, upstreamVars, parentDone, groupVars, written>>
    /\ UNCHANGED outsideHandler

\* Variant: an error that is not one of the routine ones is answered with a
\* server failure.
InterceptWrite_FailsOnError ==
    /\ pc = "write"
    /\ written' = Append(written,
                         IF diErr = NoErr THEN newResp
                         ELSE IF diErr \in {errNotInterceptableQuestion,
                                            errAnswerNotIPRecord,
                                            errNoTailscaleIPs,
                                            errNoTailscaleIPsAfterFiltering}
                              THEN upResp
                              ELSE ServerFailure(req))
    /\ pc' = "done"
    /\ UNCHANGED <<path, req, upstreamVars, parentDone, groupVars, resultVars>>
    /\ UNCHANGED outsideHandler

\* handler.intercept after doInterception.
InterceptWrite ==
    /\ pc = "write"
    /\ written' = Append(written, IF diErr # NoErr THEN upResp ELSE newResp)
    /\ pc' = "done"
    /\ UNCHANGED <<path, req, upstreamVars, parentDone, groupVars, resultVars>>
    /\ UNCHANGED outsideHandler

Next ==
    \/ \E p \in {"intercept", "forward"}, q \in QuestionLists : Receive(p, q)
    \/ CancelContext
    \/ TotalDeadline
    \/ ExchangeCall
    \/ \E o \in ExchangeOutcomes(req, totalElapsed) : ExchangeReturn(o)
    \/ AllUpstreamsTimedOut
    \/ ForwardWrite
    \/ InterceptFail
    \/ DoInterceptionBegin
    \/ \E i \in Units : Spawn(i)
    \/ StartCollect
    \/ \E i \in Units, r \in ResolverResults : UnitRun(i, r)
    \/ \E i \in Units : SendReceive(i)
    \/ \E i \in Units : UnitCtxDone(i)
    \/ CloserWait
    \/ CloserClose
    \/ DoInterceptionFinish
    \/ InterceptWrite

Spec == Init /\ [][Next]_vars

\* One call of doInterception on its own: handler.intercept with the
\* response that resolveUpstream returned for the request as an input.
UpstreamResolved(q, r) ==
    /\ pc = "idle"
    /\ pc' = "resolved"
    /\ path' = "intercept"
    /\ req' = [question |-> q]
    /\ upIdx' = 1
    /\ contacted' = <<1>>
    /\ outcomes' = <<[err |-> NoErr, resp |-> r]>>
    /\ totalElapsed' = FALSE
    /\ elapsedDuring' = 0
    /\ upResp' = r
    /\ upErr' = NoErr
    /\ unit' = [i \in Units |-> NoUnit]
    /\ gErr' = NoErr
    /\ gCancelled' = FALSE
    /\ closer' = "off"
    /\ chanClosed' = FALSE
    /\ tailscaleIPs' = <<>>
    /\ newResp' = NoMsg
    /\ diErr' = NoErr
    /\ written' = <<>>
    /\ UNCHANGED parentDone
    /\ UNCHANGED outsideHandler

\* A step of doInterception or of one of its goroutines.
DoInterceptionStep ==
    \/ \E i \in Units : Spawn(i)
    \/ StartCollect
    \/ \E i \in Units, r \in ResolverResults : UnitRun(i, r)
    \/ \E i \in Units : SendReceive(i)
    \/ \E i \in Units : UnitCtxDone(i)
    \/ CloserWait
    \/ CloserClose
    \/ DoInterceptionFinish

NextDoInterception ==
    \/ \E q \in QuestionLists :
        \E r \in UpstreamResponses([question |-> q]) : UpstreamResolved(q, r)
    \/ CancelContext
    \/ DoInterceptionBegin
    \/ \E i \in Units : Spawn(i)
    \/ StartCollect
    \/ \E i \in Units, r \in ResolverResults : UnitRun(i, r)
    \/ \E i \in Units : SendReceive(i)
    \/ \E i \in Units : UnitCtxDone(i)
    \/ CloserWait
    \/ CloserClose
    \/ DoInterceptionFinish
    \/ InterceptWrite

\* doInterception with the Go scheduler's guarantee that, while some
\* goroutine of it can run, one of them does; a Resolver call returns.
SpecDoInterception ==
    Init /\ [][NextDoInterception]_vars /\ WF_vars(DoInterceptionStep)

TypeOK ==
    /\ pc \in {"idle", "loop", "exchange", "resolved", "spawn", "collect",
               "write", "done"}
    /\ path \in {"intercept", "forward"}
    /\ upIdx \in 1..(NumUpstreams + 1)
    /\ elapsedDuring \in 0..NumUpstreams
    /\ closer \in {"off", "wait", "close", "exit"}
    /\ \A i \in Units : unit[i].pc \in {"none", "run", "send", "ret"}
    /\ Len(written) <= 1

\* ------------------------------------- the Kubernetes resolver at work
\* A watch event adds or replaces a Service in the store.
ServiceUpdated(service) ==
    /\ serviceStore' =
        { s \in serviceStore :
            <<s.namespace, s.name>> # <<service.namespace, service.name>> }
            \cup { service }
    /\ lastLookup' = NoLookupYet
    /\ UNCHANGED secretStore
    /\ UNCHANGED <<handlerVars, startVars, muxVars, serveVars, thiefVars>>

\* A watch event removes a Service from the store.
ServiceDeleted(key) ==
    /\ \E s \in serviceStore : <<s.namespace, s.name>> = key
    /\ serviceStore' =
        { s \in serviceStore : <<s.namespace, s.name>> # key }
    /\ lastLookup' = NoLookupYet
    /\ UNCHANGED secretStore
    /\ UNCHANGED <<handlerVars, startVars, muxVars, serveVars, thiefVars>>

\* A watch event adds or replaces a Secret in the store.
SecretUpdated(secret) ==
    /\ secretStore' =
        { s \in secretStore : s.name # secret.name } \cup { secret }
    /\ lastLookup' = NoLookupYet
    /\ UNCHANGED serviceStore
    /\ UNCHANGED <<handlerVars, startVars, muxVars, serveVars, thiefVars>>

\* A watch event removes a Secret from the store.
SecretDeleted(name) ==
    /\ \E s \in secretStore : s.name = name
    /\ secretStore' = { s \in secretStore : s.name # name }
    /\ lastLookup' = NoLookupYet
    /\ UNCHANGED serviceStore
    /\ UNCHANGED <<handlerVars, startVars, muxVars, serveVars, thiefVars>>

\* KubernetesResolver.GetTailscaleIPsByExternalIP is called.
Lookup(externalIP, serviceOrder, secretOrder) ==
    /\ lastLookup' =
        [ip |-> externalIP,
         out |-> GetTailscaleIPsByExternalIP(externalIP, serviceOrder,
                                             secretOrder)]
    /\ UNCHANGED <<serviceStore, secretStore>>
    /\ UNCHANGED <<handlerVars, startVars, muxVars, serveVars, thiefVars>>

NextIndex ==
    \/ \E service \in Services : ServiceUpdated(service)
    \/ \E key \in ServiceKeys : ServiceDeleted(key)
    \/ \E secret \in Secrets : SecretUpdated(secret)
    \/ \E name \in SecretNames : SecretDeleted(name)
    \/ \E externalIP \in ExternalIPs, serviceOrder \in Orders(ServiceKeys),
          secretOrder \in Orders(SecretNames) :
            Lookup(externalIP, serviceOrder, secretOrder)

SpecIndex == Init /\ [][NextIndex]_vars

\* ------------------------------------------ starting the resolver
\* main calls StartWithTimeout: with a timeout the context is derived.
StartWithTimeout(timeout) ==
    /\ startPc = "idle"
    /\ withTimeout' = timeout
    /\ factory' = SecretFactory
    /\ startPc' = "factoryStart"
    /\ UNCHANGED <<cancelClosed, startedInformers, watch, synced, syncResult,
                   startErr>>
    /\ UNCHANGED <<handlerVars, indexVars, muxVars, serveVars, thiefVars>>

\* The signal context of main is cancelled.
ParentCancel ==
    /\ ~cancelClosed
    /\ cancelClosed' = TRUE
    /\ UNCHANGED <<startPc, factory, withTimeout, startedInformers, watch,
                   synced, syncResult, startErr>>
    /\ UNCHANGED <<handlerVars, indexVars, muxVars, serveVars, thiefVars>>

\* The timeout of the derived context expires during Start.
TimeoutExpires ==
    /\ withTimeout
    /\ startPc \in {"factoryStart", "waitForCacheSync", "join"}
    /\ ~cancelClosed
    /\ cancelClosed' = TRUE
    /\ UNCHANGED <<startPc, factory, withTimeout, startedInformers, watch,
                   synced, syncResult, startErr>>
    /\ UNCHANGED <<handlerVars, indexVars, muxVars, serveVars, thiefVars>>

\* factory.Start(cancel): the informer is run in a goroutine and recorded
\* as started.
FactoryStart ==
    /\ startPc = "factoryStart"
    /\ startedInformers' = [startedInformers EXCEPT ![factory] = TRUE]
    /\ watch' = [watch EXCEPT ![factory] = "running"]
    /\ startPc' = "waitForCacheSync"
    /\ UNCHANGED <<factory, withTimeout, cancelClosed, synced, syncResult,
                   startErr>>
    /\ UNCHANGED <<handlerVars, indexVars, muxVars, serveVars, thiefVars>>

\* A running informer completes its initial list.
InformerSynced(f) ==
    /\ watch[f] = "running"
    /\ ~cancelClosed
    /\ ~synced[f]
    /\ synced' = [synced EXCEPT ![f] = TRUE]
    /\ UNCHANGED <<startPc, factory, withTimeout, cancelClosed,
                   startedInformers, watch, syncResult, startErr>>
    /\ UNCHANGED <<handlerVars, indexVars, muxVars, serveVars, thiefVars>>

\* A running informer sees its stop channel closed and returns.
InformerStopped(f) ==
    /\ watch[f] = "running"
    /\ cancelClosed
    /\ watch' = [watch EXCEPT ![f] = "stopped"]
    /\ UNCHANGED <<startPc, factory, withTimeout, cancelClosed,
                   startedInformers, synced, syncResult, startErr>>
    /\ UNCHANGED <<handlerVars, indexVars, muxVars, serveVars, thiefVars>>

\* Variant: the wait gives up on an informer that has not synced yet.
WaitForCacheSync_GivesUp(ok) ==
    /\ startPc = "waitForCacheSync"
    /\ IF ok THEN synced[factory] ELSE ~synced[factory]
    /\ syncResult' = [syncResult EXCEPT ![factory] =
                        IF ok THEN "synced" ELSE "failed"]
    /\ IF factory = SecretFactory
       THEN factory' = ServiceFactory /\ startPc' = "factoryStart"
       ELSE factory' = factory /\ startPc' = "join"
    /\ UNCHANGED <<withTimeout, cancelClosed, startedInformers, watch, synced,
                   startErr>>
    /\ UNCHANGED <<handlerVars, indexVars, muxVars, serveVars, thiefVars>>

\* factory.WaitForCacheSync(cancel) returns: true for a synced informer,
\* false once the channel is closed.
WaitForCacheSync(ok) ==
    /\ startPc = "waitForCacheSync"
    /\ IF ok THEN synced[factory] ELSE cancelClosed
    /\ syncResult' = [syncResult EXCEPT ![factory] =
                        IF ok THEN "synced" ELSE "failed"]
    /\ IF factory = SecretFactory
       THEN factory' = ServiceFactory /\ startPc' = "factoryStart"
       ELSE factory' = factory /\ startPc' = "join"
    /\ UNCHANGED <<withTimeout, cancelClosed, startedInformers, watch, synced,
                   startErr>>
    /\ UNCHANGED <<handlerVars, indexVars, muxVars, serveVars, thiefVars>>

\* Start returns the joined errors; StartWithTimeout's deferred cancel runs.
StartReturn ==
    /\ startPc = "join"
    /\ startPc' = "returned"
    /\ startErr' =
        Join(CacheSyncError(SecretFactory, syncResult[SecretFactory] = "synced"),
             CacheSyncError(ServiceFactory,
                            syncResult[ServiceFactory] = "synced"))
    /\ cancelClosed' = (cancelClosed \/ withTimeout)
    /\ UNCHANGED <<factory, withTimeout, startedInformers, watch, synced,
                   syncResult>>
    /\ UNCHANGED <<handlerVars, indexVars, muxVars, serveVars, thiefVars>>

NextStart ==
    \/ \E timeout \in BOOLEAN : StartWithTimeout(timeout)
    \/ ParentCancel
    \/ TimeoutExpires
    \/ FactoryStart
    \/ \E f \in Factories : InformerSynced(f)
    \/ \E f \in Factories : InformerStopped(f)
    \/ \E ok \in BOOLEAN : WaitForCacheSync(ok)
    \/ StartReturn

SpecStart == Init /\ [][NextStart]_vars

\* ------------------------------------------------- routing at work
\* proxy.New: the server is given its configuration.
New(zones) ==
    /\ ~configured
    /\ configured' = TRUE
    /\ proxyZones' = zones
    /\ UNCHANGED <<mux, routed>>
    /\ UNCHANGED <<handlerVars, indexVars, startVars, serveVars, thiefVars>>

\* Server.makeDNSServer for one protocol; tcp is made before udp.
MakeDNSServer(protocol) ==
    /\ configured
    /\ ~mux[protocol].built
    /\ protocol = "udp" => mux["tcp"].built
    /\ mux' = [mux EXCEPT ![protocol] =
                [built |-> TRUE, z |-> BuildMux(proxyZones)]]
    /\ UNCHANGED <<configured, proxyZones, routed>>
    /\ UNCHANGED <<handlerVars, indexVars, startVars, serveVars, thiefVars>>

\* ServeMux.ServeDNS: a query arrives on one transport.
ServeDNS(protocol, name) ==
    /\ \A p \in Protocols : mux[p].built
    /\ routed' = [protocol |-> protocol, name |-> name,
                  handler |-> Match(mux[protocol].z, CanonicalName(name))]
    /\ UNCHANGED <<configured, proxyZones, mux>>
    /\ UNCHANGED <<handlerVars, indexVars, startVars, serveVars, thiefVars>>

NextRouting ==
    \/ \E zones \in ProxyZoneLists : New(zones)
    \/ \E protocol \in Protocols : MakeDNSServer(protocol)
    \/ \E protocol \in Protocols, name \in QueryNames :
        ServeDNS(protocol, name)

SpecRouting == Init /\ [][NextRouting]_vars

\* ----------------------------------------- serving and shutting down
\* Server.ListenAndServeContext up to g.Wait: both servers are made, both
\* ListenAndServe goroutines and the shutdown goroutine are started.
ListenAndServeContext ==
    /\ servePc = "idle"
    /\ servePc' = "wait"
    /\ listener' = [p \in Protocols |-> "starting"]
    /\ shutPc' = "wait"
    /\ UNCHANGED <<topCancelled, srvCtxDone, srvGroupErr, shutdownAsked,
                   shutdownFailed, warned>>
    /\ UNCHANGED <<handlerVars, indexVars, startVars, muxVars, thiefVars>>

\* The context given to ListenAndServeContext is cancelled.
CancelTop ==
    /\ ~topCancelled
    /\ topCancelled' = TRUE
    /\ srvCtxDone' = TRUE
    /\ UNCHANGED <<servePc, listener, srvGroupErr, shutPc, shutdownAsked,
                   shutdownFailed, warned>>
    /\ UNCHANGED <<handlerVars, indexVars, startVars, muxVars, thiefVars>>

\* ListenAndServe has bound its address and serves.
Listening(protocol) ==
    /\ listener[protocol] = "starting"
    /\ listener' = [listener EXCEPT ![protocol] = "serving"]
    /\ UNCHANGED <<servePc, topCancelled, srvCtxDone, srvGroupErr, shutPc,
                   shutdownAsked, shutdownFailed, warned>>
    /\ UNCHANGED <<handlerVars, indexVars, startVars, muxVars, thiefVars>>

\* ListenAndServe returns an error: the group keeps the first one and
\* cancels its context.
ListenFails(protocol) ==
    /\ listener[protocol] \in {"starting", "serving"}
    /\ listener' = [listener EXCEPT ![protocol] = "failed"]
    /\ srvGroupErr' =
        IF srvGroupErr = NoErr THEN ListenError(protocol) ELSE srvGroupErr
    /\ srvCtxDone' = TRUE
    /\ UNCHANGED <<servePc, topCancelled, shutPc, shutdownAsked,
                   shutdownFailed, warned>>
    /\ UNCHANGED <<handlerVars, indexVars, startVars, muxVars, thiefVars>>

\* The shutdown goroutine receives from ctx.Done().
ShutdownBegins ==
    /\ shutPc = "wait"
    /\ srvCtxDone
    /\ shutPc' = "tcp"
    /\ UNCHANGED <<servePc, topCancelled, srvCtxDone, listener, srvGroupErr,
                   shutdownAsked, shutdownFailed, warned>>
    /\ UNCHANGED <<handlerVars, indexVars, startVars, muxVars, thiefVars>>

\* Variant: the goroutine returns when a Shutdown fails.
Shutdown_ReturnsOnError(failed, stops) ==
    /\ shutPc \in Protocols
    /\ failed <=> listener[shutPc] # "serving"
    /\ stops <=> ~failed
    /\ shutdownAsked' = [shutdownAsked EXCEPT ![shutPc] = TRUE]
    /\ shutdownFailed' = [shutdownFailed EXCEPT ![shutPc] = failed]
    /\ warned' = IF failed THEN warned \cup {shutPc} ELSE warned
    /\ listener' = IF stops
                   THEN [listener EXCEPT ![shutPc] = "stopped"]
                   ELSE listener
    /\ shutPc' = IF failed THEN "done" ELSE NextToShutDown(shutPc)
    /\ UNCHANGED <<servePc, topCancelled, srvCtxDone, srvGroupErr>>
    /\ UNCHANGED <<handlerVars, indexVars, startVars, muxVars, thiefVars>>

\* The shutdown goroutine calls Shutdown on the server it has come to: it
\* fails on a server that has not started to serve and is left as it is,
\* and stops one that serves; an error is logged as a warning and the
\* goroutine goes on.
Shutdown(failed, stops) ==
    /\ shutPc \in Protocols
    /\ failed <=> listener[shutPc] # "serving"
    /\ stops <=> ~failed
    /\ shutdownAsked' = [shutdownAsked EXCEPT ![shutPc] = TRUE]
    /\ shutdownFailed' = [shutdownFailed EXCEPT ![shutPc] = failed]
    /\ warned' = IF failed THEN warned \cup {shutPc} ELSE warned
    /\ listener' = IF stops
                   THEN [listener EXCEPT ![shutPc] = "stopped"]
                   ELSE listener
    /\ shutPc' = NextToShutDown(shutPc)
    /\ UNCHANGED <<servePc, topCancelled, srvCtxDone, srvGroupErr>>
    /\ UNCHANGED <<handlerVars, indexVars, startVars, muxVars, thiefVars>>

\* g.Wait returns once both ListenAndServe goroutines have returned.
WaitReturns ==
    /\ servePc = "wait"
    /\ \A p \in Protocols : listener[p] \in {"stopped", "failed"}
    /\ servePc' = "returned"
    /\ srvCtxDone' = TRUE
    /\ UNCHANGED <<topCancelled, listener, srvGroupErr, shutPc,
                   shutdownAsked, shutdownFailed, warned>>
    /\ UNCHANGED <<handlerVars, indexVars, startVars, muxVars, thiefVars>>

NextServe ==
    \/ ListenAndServeContext
    \/ CancelTop
    \/ \E protocol \in Protocols : Listening(protocol)
    \/ \E protocol \in Protocols : ListenFails(protocol)
    \/ ShutdownBegins
    \/ \E failed, stops \in BOOLEAN : Shutdown(failed, stops)
    \/ WaitReturns

SpecServe == Init /\ [][NextServe]_vars

\* The listeners with what the Go scheduler guarantees: a ListenAndServe
\* that is starting gets to serve unless it fails, the shutdown goroutine
\* and g.Wait go on when they can.
SpecServeScheduled ==
    /\ SpecServe
    /\ \A protocol \in Protocols : WF_vars(Listening(protocol))
    /\ WF_vars(ShutdownBegins)
    /\ WF_vars(\E failed, stops \in BOOLEAN : Shutdown(failed, stops))
    /\ WF_vars(WaitReturns)

\* ---------------------------------------------------- the address thief
\* The ticker fires and Steal runs up to its first set-address call: it
\* fetches the devices, looks for the device that holds the desired address
\* and for the target, and decides what to ask for.
Steal(devs, fetched) ==
    /\ thiefPc = "ticker"
    /\ calls' = <<>>
    /\ randomIP' = ""
    /\ IF ~fetched
       THEN /\ devices' = <<>>
            /\ scan' = NoScan
            /\ stealErr' = errFetchDevices
            /\ thiefPc' = "returned"
       ELSE LET s == RangeDevices(devs, 1, NoScan)
            IN  /\ devices' = devs
                /\ scan' = s
                /\ stealErr' =
                       IF s.err # NoErr THEN s.err
                       ELSE IF s.targetDevice = NoDevice
                       THEN errFailedToFindTargetDevice
                       ELSE NoErr
                /\ thiefPc' =
                       IF s.err # NoErr \/ s.targetDevice = NoDevice
                       THEN "returned"
                       ELSE IF s.currentDevice = s.targetDevice
                       THEN "returned"
                       ELSE IF s.currentDevice # NoDevice
                       THEN "occupant"
                       ELSE "target"
    /\ UNCHANGED <<handlerVars, indexVars, startVars, muxVars, serveVars>>

\* Steal calls setDeviceIPv4 for the device that holds the desired address,
\* with an address randomTailscaleIPv4 chose.
SetOccupantIPv4(ip, response) ==
    /\ thiefPc = "occupant"
    /\ ip \in randomTailscaleIPv4(scan.occupiedIPs)
    /\ LET result == setDeviceIPv4(devices[scan.currentDevice], ip, response)
       IN  /\ calls' = Append(calls, [request |-> result.request,
                                      status |-> result.status])
           /\ IF result.err # NoErr
              THEN /\ stealErr' =
                          "failed to change currently occupying device's IP: "
                              \o result.err
                   /\ thiefPc' = "returned"
              ELSE /\ stealErr' = NoErr
                   /\ thiefPc' = "target"
    /\ randomIP' = ip
    /\ UNCHANGED <<devices, scan>>
    /\ UNCHANGED <<handlerVars, indexVars, startVars, muxVars, serveVars>>

\* Steal calls setDeviceIPv4 for the target with the desired address and
\* returns what it returns.
SetTargetIPv4(response) ==
    /\ thiefPc = "target"
    /\ LET result == setDeviceIPv4(devices[scan.targetDevice], DesiredIP,
                                   response)
       IN  /\ calls' = Append(calls, [request |-> result.request,
                                      status |-> result.status])
           /\ stealErr' = result.err
    /\ thiefPc' = "returned"
    /\ UNCHANGED <<devices, scan, randomIP>>
    /\ UNCHANGED <<handlerVars, indexVars, startVars, muxVars, serveVars>>

\* Steal has returned: the loop of Start logs its error and waits for the
\* ticker again.
StealReturns ==
    /\ thiefPc = "returned"
    /\ thiefPc' = "ticker"
    /\ devices' = <<>>
    /\ scan' = NoScan
    /\ randomIP' = ""
    /\ calls' = <<>>
    /\ stealErr' = NoErr
    /\ UNCHANGED <<handlerVars, indexVars, startVars, muxVars, serveVars>>

\* The thief's context is done: the loop of Start ends.
ThiefContextDone ==
    /\ thiefPc = "ticker"
    /\ thiefPc' = "stopped"
    /\ UNCHANGED <<devices, scan, randomIP, calls, stealErr>>
    /\ UNCHANGED <<handlerVars, indexVars, startVars, muxVars, serveVars>>

NextThief ==
    \/ \E devs \in DeviceLists, fetched \in BOOLEAN : Steal(devs, fetched)
    \/ \E ip \in RandomIPv4s, response \in Responses :
           SetOccupantIPv4(ip, response)
    \/ \E response \in Responses : SetTargetIPv4(response)
    \/ StealReturns
    \/ ThiefContextDone

SpecThief == Init /\ [][NextThief]_vars

\* ================================================================ claims
\* What the claims speak of, read off the state.
Handled == pc = "done"

LastOutcome == outcomes[Len(outcomes)]

UpstreamSucceeded == Len(outcomes) > 0 /\ LastOutcome.err = NoErr

UpstreamResponse == LastOutcome.resp

Answers == UpstreamResponse.answer

SingleAddressQuestion ==
    /\ Len(req.question) = 1
    /\ req.question[1].qtype \in {"A", "AAAA"}

FamilyOf(rrtype) == IF rrtype = "A" THEN 4 ELSE 6

IsAddressRecord(rr) == rr.rrtype \in {"A", "AAAA"}

\* The addresses a lookup returned that have the family of the answer.
ResolvedSameFamily(i) ==
    SelectSeq(unit[i].got.ips, LAMBDA ip : ip.fam = FamilyOf(Answers[i].rrtype))

Count(seq, x) == Cardinality({ k \in DOMAIN seq : seq[k] = x })

RECURSIVE ResolvedCount(_, _)
ResolvedCount(ip, n) ==
    IF n = 0 THEN 0
    ELSE Count(ResolvedSameFamily(n), ip) + ResolvedCount(ip, n - 1)

AnswerIPs(msg) == [k \in 1..Len(msg.answer) |-> msg.answer[k].ip]

EachAnswerResolves ==
    \A i \in 1..Len(Answers) :
        /\ IsAddressRecord(Answers[i])
        /\ unit[i].got.err = NoErr
        /\ Len(ResolvedSameFamily(i)) > 0

OneAnswerPerResolvedAddress(msg) ==
    \A ip \in OverlayIPs \cup ExternalIPs :
        Count(AnswerIPs(msg), ip) = ResolvedCount(ip, Len(Answers))

CarriesQuestion(msg) ==
    \A k \in 1..Len(msg.answer) :
        /\ msg.answer[k].name = req.question[1].name
        /\ msg.answer[k].rrtype = req.question[1].qtype

NoOriginalAddress(msg) ==
    \A k \in 1..Len(msg.answer) :
        \A i \in 1..Len(Answers) : msg.answer[k].ip # Answers[i].ip

\* C1: on the intercept path, a query with more than one question, or whose
\* single question is neither A nor AAAA, and whose upstream forwarding
\* succeeded, is answered with exactly the upstream response.
C1_IneligibleQuestionGetsUpstreamResponse ==
    ( /\ Handled
      /\ path = "intercept"
      /\ UpstreamSucceeded
      /\ ~SingleAddressQuestion )
    => /\ written = <<UpstreamResponse>>
       /\ \A i \in Units : unit[i].pc = "none"

C1_Witness ==
    /\ Handled
    /\ path = "intercept"
    /\ UpstreamSucceeded
    /\ Len(req.question) > 1
    /\ Len(Answers) > 0
    /\ IsAddressRecord(Answers[1])
    /\ written = <<UpstreamResponse>>

\* C2 as stated: when every upstream answer resolves to at least one overlay
\* address of the answer's own family, the response has exactly one answer
\* per resolved overlay address, each with the question's name and type, and
\* none of the upstream's addresses.
C2_AsStated ==
    ( /\ Handled
      /\ path = "intercept"
      /\ UpstreamSucceeded
      /\ SingleAddressQuestion
      /\ EachAnswerResolves )
    => /\ Len(written) = 1
       /\ OneAnswerPerResolvedAddress(written[1])
       /\ CarriesQuestion(written[1])
       /\ NoOriginalAddress(written[1])

AnswersOfQuestionType ==
    \A i \in 1..Len(Answers) : Answers[i].rrtype = req.question[1].qtype

\* C2 as amended: when every upstream answer is an address record of the
\* question's own type and resolves to at least one overlay address of that
\* family, and the server's context is not cancelled while the query is
\* handled, the response has exactly one answer per resolved overlay address
\* of that family, each with the question's name and type, and none of the
\* upstream's addresses, whatever the interleaving of the units.
C2_RewriteOnePerOverlayAddress ==
    ( /\ Handled
      /\ path = "intercept"
      /\ UpstreamSucceeded
      /\ SingleAddressQuestion
      /\ AnswersOfQuestionType
      /\ EachAnswerResolves
      /\ ~parentDone )
    => /\ Len(written) = 1
       /\ OneAnswerPerResolvedAddress(written[1])
       /\ CarriesQuestion(written[1])
       /\ NoOriginalAddress(written[1])
       /\ (Len(Answers) > 0 => written[1] = newResp /\ diErr = NoErr)

C2_Witness ==
    /\ Handled
    /\ path = "intercept"
    /\ UpstreamSucceeded
    /\ SingleAddressQuestion
    /\ AnswersOfQuestionType
    /\ EachAnswerResolves
    /\ ~parentDone
    /\ Len(Answers) = 2
    /\ Len(unit[1].got.ips) = 2
    /\ Len(written) = 1
    /\ Len(written[1].answer) = 2
    /\ written[1].answer[1].name # Answers[1].name

\* C3: when some upstream answer of an A or AAAA query resolves to no overlay
\* address of its own family, the response is the upstream response, and no
\* response holds overlay addresses next to upstream addresses.
SomeAnswerResolvesToNothing ==
    \E i \in 1..Len(Answers) :
        /\ IsAddressRecord(Answers[i])
        /\ unit[i].got.err = NoErr
        /\ Len(ResolvedSameFamily(i)) = 0

MixesAddresses(msg) ==
    /\ \E k \in 1..Len(msg.answer) : msg.answer[k].ip \in OverlayIPs
    /\ \E k \in 1..Len(msg.answer) : msg.answer[k].ip \in ExternalIPs

C3_NoOverlayAddressFallsBack ==
    /\ ( /\ Handled
         /\ path = "intercept"
         /\ UpstreamSucceeded
         /\ SingleAddressQuestion
         /\ SomeAnswerResolvesToNothing )
       => written = <<UpstreamResponse>>
    /\ \A k \in 1..Len(written) : ~MixesAddresses(written[k])

C3_Witness ==
    /\ Handled
    /\ path = "intercept"
    /\ UpstreamSucceeded
    /\ SingleAddressQuestion
    /\ Len(Answers) = 2
    /\ unit[1].got.err = NoErr
    /\ Len(ResolvedSameFamily(1)) > 0
    /\ Len(tailscaleIPs) > 0
    /\ unit[2].got.err = NoErr
    /\ IsAddressRecord(Answers[2])
    /\ Len(ResolvedSameFamily(2)) = 0
    /\ written = <<UpstreamResponse>>

\* C4: when the upstream answer section holds a record that is neither A nor
\* AAAA, the client receives the upstream response, also when every address
\* record of the section resolves to overlay addresses.
SomeOtherRecord ==
    \E i \in 1..Len(Answers) : ~IsAddressRecord(Answers[i])

C4_OtherRecordFallsBack ==
    ( /\ Handled
      /\ path = "intercept"
      /\ UpstreamSucceeded
      /\ SomeOtherRecord )
    => written = <<UpstreamResponse>>

C4_Witness ==
    /\ Handled
    /\ path = "intercept"
    /\ UpstreamSucceeded
    /\ SingleAddressQuestion
    /\ Len(Answers) = 2
    /\ Answers[1].rrtype = "CNAME"
    /\ Answers[2].rrtype = req.question[1].qtype
    /\ unit[2].got.err = NoErr
    /\ Len(ResolvedSameFamily(2)) > 0
    /\ written = <<UpstreamResponse>>

\* C5: every answer of a rewritten response has the record type of the
\* question and an address of the question's family.
Rewritten ==
    /\ Handled
    /\ path = "intercept"
    /\ upErr = NoErr
    /\ diErr = NoErr

C5_RewrittenAnswersHaveQuestionFamily ==
    Rewritten =>
        \A k \in 1..Len(written[1].answer) :
            /\ written[1].answer[k].rrtype = req.question[1].qtype
            /\ written[1].answer[k].ip.fam = FamilyOf(req.question[1].qtype)

C5_Witness ==
    /\ Rewritten
    /\ Len(written[1].answer) > 0
    /\ \E i \in 1..Len(Answers) :
        /\ Answers[i].rrtype # req.question[1].qtype
        /\ Len(ResolvedSameFamily(i)) > 0
    /\ \E i \in 1..Len(Answers) :
        \E j, k \in 1..Len(unit[i].got.ips) :
            unit[i].got.ips[j].fam # unit[i].got.ips[k].fam

\* C6: a handled query has exactly one response written, and it is a
\* rewritten answer built from overlay addresses, the upstream response, or
\* a reply to the request with the server-failure code; nothing is written
\* before.
IsRewrittenAnswer(msg) ==
    /\ path = "intercept"
    /\ msg.rcode = "NOERROR"
    /\ msg.question = <<req.question[1]>>
    /\ Len(msg.answer) > 0
    /\ \A k \in 1..Len(msg.answer) : msg.answer[k].ip \in OverlayIPs

IsUpstreamResponse(msg) == UpstreamSucceeded /\ msg = UpstreamResponse

IsServerFailure(msg) ==
    /\ msg.rcode = "SERVFAIL"
    /\ msg.question = <<req.question[1]>>
    /\ msg.answer = <<>>

C6_ExactlyOneResponseOfThreeKinds ==
    /\ ~Handled => written = <<>>
    /\ Handled =>
        /\ Len(written) = 1
        /\ \/ IsRewrittenAnswer(written[1])
           \/ IsUpstreamResponse(written[1])
           \/ IsServerFailure(written[1])

C6_Witness ==
    /\ Handled
    /\ Len(written) = 1
    /\ IsServerFailure(written[1])
    /\ ~UpstreamSucceeded

\* C7: resolveUpstream calls the upstreams in configured order, each at most
\* once; it goes on to the next one only after the current one failed with
\* its own timeout, and goes on whenever it did; the first response is
\* returned as it is and no later upstream is called.
Returned == pc \notin {"idle", "loop", "exchange"}

C7_UpstreamsInOrderFirstSuccessWins ==
    /\ Len(contacted) <= NumUpstreams
    /\ \A k \in 1..Len(contacted) : contacted[k] = k
    /\ \A k \in 1..Len(outcomes) :
        k < Len(contacted) => outcomes[k].err = errUpstreamTimeout
    /\ \A k \in 1..Len(outcomes) :
        outcomes[k].err = NoErr =>
            /\ k = Len(contacted)
            /\ Returned
            /\ upResp = outcomes[k].resp
            /\ upErr = NoErr
    /\ ( /\ Returned
         /\ Len(outcomes) > 0
         /\ LastOutcome.err = errUpstreamTimeout )
       => Len(contacted) = NumUpstreams

C7_Witness ==
    /\ Returned
    /\ Len(outcomes) = 2
    /\ outcomes[1].err = errUpstreamTimeout
    /\ outcomes[2].err = NoErr
    /\ contacted = <<1, 2>>
    /\ NumUpstreams > 2
    /\ upResp = outcomes[2].resp
    /\ Len(upResp.answer) > 0

C9_OtherErrorEndsTheLoop ==
    \A k \in 1..Len(outcomes) :
        (outcomes[k].err # NoErr /\ ~IsDeadlineExceeded(outcomes[k].err)) =>
            /\ k = Len(contacted)
            /\ Returned
            /\ upErr = outcomes[k].err
            /\ upResp = NoMsg

C9_Witness ==
    /\ Returned
    /\ Len(outcomes) = 2
    /\ outcomes[1].err = errUpstreamTimeout
    /\ outcomes[2].err = errUpstreamOther
    /\ contacted = <<1, 2>>
    /\ NumUpstreams > 2
    /\ upErr = errUpstreamOther

\* C10: when every upstream was called and each failed with its own timeout,
\* resolveUpstream returns the all-upstreams-timed-out error, which is a
\* deadline error but not the total-timeout error.
AllTimedOutIndividually ==
    /\ Len(outcomes) = NumUpstreams
    /\ \A k \in 1..Len(outcomes) : outcomes[k].err = errUpstreamTimeout

C10_AllTimedOutIsNotTotalTimeout ==
    (AllTimedOutIndividually /\ Returned) =>
        /\ upErr = errAllUpstreamsTimedOut
        /\ upErr # errTotalUpstreamTimeoutExceeded
        /\ ~IsTotalTimeout(upErr)
        /\ IsDeadlineExceeded(upErr)
        /\ upResp = NoMsg

C10_Witness ==
    /\ AllTimedOutIndividually
    /\ Returned
    /\ ~totalElapsed
    /\ upErr = errAllUpstreamsTimedOut

\* C11: on the intercept path, when resolveUpstream fails, with whichever
\* error, the reply to the request with the server-failure code is written
\* and nothing else happens: no unit is spawned, nothing else is written.
NothingIntercepted ==
    /\ unit = [i \in Units |-> NoUnit]
    /\ closer = "off"
    /\ ~chanClosed
    /\ gErr = NoErr
    /\ tailscaleIPs = <<>>
    /\ newResp = NoMsg
    /\ diErr = NoErr

C11_UpstreamFailureIsServerFailure ==
    (path = "intercept" /\ Returned /\ upErr # NoErr) =>
        /\ pc \in {"resolved", "done"}
        /\ NothingIntercepted
        /\ pc = "resolved" => written = <<>>
        /\ pc = "done" =>
            /\ Len(written) = 1
            /\ IsServerFailure(written[1])

C11_Witness ==
    /\ Handled
    /\ path = "intercept"
    /\ upErr = errAllUpstreamsTimedOut
    /\ SingleAddressQuestion
    /\ Len(written) = 1
    /\ IsServerFailure(written[1])

\* C12: on the plain-forward path the reply is what resolveUpstream returned
\* when it succeeded and the server-failure reply when it failed; no unit of
\* work is spawned whatever the question and the answers are.
C12_ForwardRepliesWithForwarderResult ==
    (path = "forward" /\ Returned) =>
        /\ pc \in {"resolved", "done"}
        /\ NothingIntercepted
        /\ (Handled /\ UpstreamSucceeded) =>
            /\ upErr = NoErr
            /\ written = <<UpstreamResponse>>
        /\ (Handled /\ ~UpstreamSucceeded) =>
            /\ upErr # NoErr
            /\ Len(written) = 1
            /\ IsServerFailure(written[1])

C12_Witness ==
    /\ Handled
    /\ path = "forward"
    /\ UpstreamSucceeded
    /\ SingleAddressQuestion
    /\ Len(Answers) > 0
    /\ Answers[1].rrtype = req.question[1].qtype
    /\ written = <<UpstreamResponse>>

\* C13: when the Resolver returns an error for some answer, the client
\* receives the upstream response, not a server failure; and nothing of a
\* handled request is left when the next one starts.
SomeLookupFailed ==
    \E i \in 1..Len(Answers) : unit[i].got.err = errResolver

C13_ResolverErrorFallsBack ==
    /\ ( /\ Handled
         /\ path = "intercept"
         /\ UpstreamSucceeded
         /\ SomeLookupFailed )
       => /\ written = <<UpstreamResponse>>
          /\ ~IsServerFailure(written[1])
          /\ diErr # NoErr
    /\ pc \in {"loop", "exchange", "resolved"} =>
        /\ NothingIntercepted
        /\ ~gCancelled
        /\ written = <<>>

C13_Witness ==
    /\ Handled
    /\ path = "intercept"
    /\ UpstreamSucceeded
    /\ SingleAddressQuestion
    /\ Len(Answers) = 2
    /\ unit[1].got.err = errResolver
    /\ unit[2].got.err = NoErr
    /\ Len(unit[2].ips) > 0
    /\ written = <<UpstreamResponse>>

\* What the claims about the resolver speak of, read off the stores.
Looked == lastLookup # NoLookupYet

Exposes(service, ip) ==
    \E i \in 1..Len(service.ingress) : service.ingress[i] = ip.host

LabeledFor(secret, service) ==
    /\ { labelTailscaleParentResource, labelTailscaleParentResourceNs,
         labelTailscaleParentResourceType } \subseteq DOMAIN secret.labels
    /\ secret.labels[labelTailscaleParentResource] = service.name
    /\ secret.labels[labelTailscaleParentResourceNs] = service.namespace
    /\ secret.labels[labelTailscaleParentResourceType] = "svc"

ExposingServices(ip) == { service \in serviceStore : Exposes(service, ip) }

\* The identity records of the Services that expose the address.
Candidates(ip) ==
    { secret \in secretStore :
        \E service \in ExposingServices(ip) : LabeledFor(secret, service) }

HasKey(secret) == tailscaleSecretDataDeviceIps \in DOMAIN secret.data

DeviceIPs(secret) == Unmarshal(secret.data[tailscaleSecretDataDeviceIps])

HasList(secret) ==
    /\ HasKey(secret)
    /\ DeviceIPs(secret).err = NoErr
    /\ Len(DeviceIPs(secret).ips) > 0

NoAddresses(secret) ==
    HasKey(secret) =>
        /\ DeviceIPs(secret).err = NoErr
        /\ DeviceIPs(secret).ips = <<>>

Malformed(secret) ==
    /\ HasKey(secret)
    /\ \/ DeviceIPs(secret).err # NoErr
       \/ \E i \in 1..Len(DeviceIPs(secret).ips) :
            ParseIP(DeviceIPs(secret).ips[i]) = NoIP

DeviceAddresses(secret) ==
    [i \in 1..Len(DeviceIPs(secret).ips) |-> ParseIP(DeviceIPs(secret).ips[i])]

\* C14: the addresses a lookup returns are the device_ips list of one Secret
\* whose three labels name, with type "svc", a Service in the store that has
\* the queried address among its ingress IPs; the list of one Secret only.
C14_ResultComesThroughTheJoin ==
    (Looked /\ Len(lastLookup.out.ips) > 0) =>
        /\ lastLookup.out.err = NoErr
        /\ \E secret \in Candidates(lastLookup.ip) :
            /\ HasList(secret)
            /\ lastLookup.out.ips = DeviceAddresses(secret)

C14_Witness ==
    /\ Looked
    /\ lastLookup.out.ips = <<OverlayV6, OverlayV4>>
    /\ Cardinality(Candidates(lastLookup.ip)) = 2
    /\ \E secret \in Candidates(lastLookup.ip) :
        /\ HasList(secret)
        /\ DeviceAddresses(secret) = <<OverlayV4>>

\* C15: a lookup returns the empty result without error when no Service
\* exposes the address or when each identity record of the exposing Services
\* lacks the key or holds the empty list; it returns an error only when some
\* such record holds something that is not a list of strings or a text that
\* is not an address.
C15_EmptyWithoutErrorAndErrorOnlyWhenMalformed ==
    Looked =>
        /\ (\A secret \in Candidates(lastLookup.ip) : NoAddresses(secret))
            => lastLookup.out = [err |-> NoErr, ips |-> <<>>]
        /\ lastLookup.out.err # NoErr =>
            /\ lastLookup.out.ips = <<>>
            /\ \E secret \in Candidates(lastLookup.ip) : Malformed(secret)

C15_Witness ==
    /\ Looked
    /\ lastLookup.out = [err |-> NoErr, ips |-> <<>>]
    /\ Cardinality(ExposingServices(lastLookup.ip)) = 2
    /\ \E secret \in Candidates(lastLookup.ip) : ~HasKey(secret)
    /\ \E secret \in Candidates(lastLookup.ip) :
        HasKey(secret) /\ NoAddresses(secret)

\* C16: two lookups of the same address with no watch event between them
\* have the same outcome (the same list, the same empty result, or an error
\* both times), and a lookup leaves the stores as they are.
SameOutcome(a, b) == a = b \/ (a.err # NoErr /\ b.err # NoErr)

C16_LookupsAreIdempotent ==
    [][ ( /\ Looked
          /\ lastLookup' # NoLookupYet
          /\ lastLookup'.ip = lastLookup.ip )
        => /\ SameOutcome(lastLookup'.out, lastLookup.out)
           /\ UNCHANGED <<serviceStore, secretStore>> ]_vars

\* What the claims about Start speak of.
StartReturned == startPc = "returned"

Failed(f) == syncResult[f] = "failed"

Names(err, f) == \E i \in 1..Len(err) : err[i] = f

\* An informer that is running and has not been told to stop.
Live(f) == watch[f] = "running" /\ ~cancelClosed

\* C17: Start returns nil only when both informers had synced before the
\* channel was closed; otherwise it returns an error that names every cache
\* that failed to sync, the second as well as the first.
C17_StartNamesEveryFailedSync ==
    StartReturned =>
        /\ startErr = <<>> =>
            \A f \in Factories : synced[f] /\ syncResult[f] = "synced"
        /\ (\E f \in Factories : ~synced[f]) => startErr # <<>>
        /\ \A f \in Factories :
            /\ Names(startErr, f) <=> Failed(f)
            /\ ~synced[f] => Names(startErr, f)

C17_Witness ==
    /\ StartReturned
    /\ startErr = <<SecretFactory, ServiceFactory>>
    /\ ~synced[SecretFactory]
    /\ ~synced[ServiceFactory]

\* C18 as stated: when a sync failed, no informer is left running while the
\* other is not, and the service informer is not started once the sync of
\* the secret informer has failed.
C18_AsStated ==
    /\ (\E f \in Factories : Failed(f)) =>
        ~(\E f, g \in Factories : Live(f) /\ ~Live(g))
    /\ Failed(SecretFactory) => ~startedInformers[ServiceFactory]

\* C18: a sync fails only once the channel is closed, which stops every
\* informer started with it, so no informer is left running; Start starts
\* both factories whatever the first wait reported.
C18_FailedStartLeavesNoInformerRunning ==
    /\ (\E f \in Factories : Failed(f)) =>
        /\ cancelClosed
        /\ \A f \in Factories : ~Live(f)
    /\ startPc \in {"join", "returned"} =>
        \A f \in Factories : startedInformers[f]

C18_Witness ==
    /\ StartReturned
    /\ Failed(SecretFactory)
    /\ startedInformers[ServiceFactory]
    /\ watch[ServiceFactory] = "stopped"
    /\ ~synced[ServiceFactory]

\* What the claim about routing speaks of.
Routed == routed # NotRouted

\* The zone is the name or an ancestor of it.
IsUnder(labels, zone) ==
    /\ Len(zone) <= Len(labels)
    /\ SubSeq(labels, Len(labels) - Len(zone) + 1, Len(labels)) = zone

\* The proxy zones of the configuration, the root zone left out.
InterceptZones ==
    { CanonicalName(proxyZones[i]) : i \in 1..Len(proxyZones) } \ { <<>> }

UnderProxyZone(name) ==
    \E zone \in InterceptZones : IsUnder(CanonicalName(name), zone)

\* The registered zones the name is under, and the longest of them.
MatchingZones(z, labels) == { zone \in DOMAIN z : IsUnder(labels, zone) }

MostSpecific(z, labels) ==
    CHOOSE zone \in MatchingZones(z, labels) :
        \A other \in MatchingZones(z, labels) : Len(other) <= Len(zone)

DoInterceptionReturned == path = "intercept" /\ pc \in {"write", "done"}

\* C21: when doInterception returns, with a response or with an error, every
\* unit that was spawned has returned and the closing goroutine has closed
\* the channel and gone: none is running or waiting to send.
C21_NoUnitOutlivesDoInterception ==
    DoInterceptionReturned =>
        /\ \A i \in Units : unit[i].pc \in {"none", "ret"}
        /\ closer \in {"off", "exit"}
        /\ closer = "exit" <=> chanClosed
        /\ Spawned # {} => closer = "exit"

C21_Witness ==
    /\ DoInterceptionReturned
    /\ diErr = errNoTailscaleIPs
    /\ Len(Answers) = 2
    /\ unit[1].got = [err |-> NoErr, ips |-> <<>>]
    /\ Len(unit[2].ips) > 0
    /\ unit[2].pc = "ret"
    /\ tailscaleIPs = <<>>

\* C22: a unit does not call the Resolver once the context of the group is
\* done, be it by the server's context or by the error of a sibling.
C22_NoLookupAfterCancellation ==
    [][ \A i \in Units :
          ( /\ unit[i].pc = "run"
            /\ unit'[i].pc \in {"send", "ret"}
            /\ unit'[i].got # NoLookup )
          => ~CtxDone ]_vars

\* C23: the Resolver is called only on the intercept path, only after
\* resolveUpstream has returned a response, and only for a request with one
\* question of type A or AAAA.
SomeLookup == \E i \in Units : unit[i].got # NoLookup

C23_ResolverOnlyAfterUpstreamOnInterceptPath ==
    /\ SomeLookup =>
        /\ path = "intercept"
        /\ pc \in {"spawn", "collect", "write", "done"}
        /\ UpstreamSucceeded
        /\ upErr = NoErr
        /\ upResp = UpstreamResponse
        /\ SingleAddressQuestion
    /\ ( \/ path = "forward"
         \/ Returned /\ upErr # NoErr
         \/ Returned /\ ~SingleAddressQuestion )
       => ~SomeLookup /\ Spawned = {}

C23_Witness ==
    /\ pc = "collect"
    /\ path = "intercept"
    /\ SingleAddressQuestion
    /\ Len(contacted) = 2
    /\ unit[1].got.err = NoErr
    /\ Len(unit[1].got.ips) > 0

\* C24: a rewritten response has at least one answer; when nothing is left
\* after the filter by the question's type, also when the upstream response
\* has no answers, the upstream response is written as it is.
NothingLeftAfterFilter ==
    /\ SingleAddressQuestion
    /\ FilterByQuestion(req.question[1], tailscaleIPs) = <<>>

C24_RewrittenResponseHasAnAnswer ==
    (Handled /\ path = "intercept" /\ UpstreamSucceeded) =>
        /\ diErr = NoErr =>
            /\ Len(newResp.answer) >= 1
            /\ written = <<newResp>>
        /\ written # <<UpstreamResponse>> => Len(written[1].answer) >= 1
        /\ NothingLeftAfterFilter =>
            /\ diErr # NoErr
            /\ written = <<UpstreamResponse>>
            /\ written[1].rcode = UpstreamResponse.rcode

C24_Witness ==
    /\ Handled
    /\ path = "intercept"
    /\ UpstreamSucceeded
    /\ SingleAddressQuestion
    /\ Answers = <<>>
    /\ UpstreamResponse.rcode = "NXDOMAIN"
    /\ diErr = errNoTailscaleIPsAfterFiltering
    /\ written = <<UpstreamResponse>>

\* C25: doInterception, once it has passed its guard, returns, whatever the
\* number of answers and the interleaving of the units, the closing
\* goroutine and the collecting loop.
C25_DoInterceptionTerminates ==
    (pc \in {"spawn", "collect"}) ~> (pc = "write")

C25_Witness ==
    /\ pc = "write"
    /\ path = "intercept"
    /\ Len(Answers) = 2
    /\ gErr = errNoTailscaleIPs
    /\ unit[1].got = [err |-> NoErr, ips |-> <<>>]
    /\ unit[2].got.err = NoErr
    /\ Len(unit[2].ips) > 0
    /\ chanClosed

\* C26: once the context given to ListenAndServeContext is cancelled, or a
\* ListenAndServe has failed, ListenAndServeContext returns.
C26_ListenAndServeContextReturns ==
    ( /\ servePc = "wait"
      /\ \/ topCancelled
         \/ \E p \in Protocols : listener[p] = "failed" )
    ~> (servePc = "returned")

\* The device that holds the desired address is another one than the target
\* Steal chose.
OccupiedByAnother ==
    /\ thiefPc \in {"occupant", "target", "returned"}
    /\ scan.err = NoErr
    /\ scan.targetDevice # NoDevice
    /\ scan.currentDevice # NoDevice
    /\ scan.currentDevice # scan.targetDevice

\* The target Steal chose holds the desired address.
TargetHoldsDesiredIP ==
    /\ thiefPc \in {"occupant", "target", "returned"}
    /\ scan.err = NoErr
    /\ scan.targetDevice # NoDevice
    /\ scan.currentDevice = scan.targetDevice

\* C27: when the desired address is held by another device than the target,
\* the first set-address request goes to that device and asks it to take a
\* 100.64.x.y address that no listed device holds, and the target is asked
\* to take the desired address only after that request has succeeded; when
\* the target holds the desired address no set-address request is made.
C27_OccupantMovedAsideBeforeTargetTakesDesiredIP ==
    /\ TargetHoldsDesiredIP => calls = <<>>
    /\ OccupiedByAnother =>
        /\ Len(calls) >= 1 =>
            /\ calls[1].request.url =
                   makeSetDeviceIPv4Request(
                       devices[scan.currentDevice].deviceID, DesiredIP).url
            /\ calls[1].request.body.ipv4 \in RandomIPv4s
            /\ \A i \in DOMAIN devices :
                   \A a \in DOMAIN devices[i].addresses :
                       devices[i].addresses[a] # calls[1].request.body.ipv4
        /\ Len(calls) >= 2 =>
            /\ calls[1].status = 200
            /\ calls[2].request =
                   makeSetDeviceIPv4Request(
                       devices[scan.targetDevice].deviceID, DesiredIP)
        /\ Len(calls) <= 2

====
